---------------------------- MODULE Spec2Model ----------------------------
(* A state-machine model of the LightSpeed example scripts:                 *)
(*   src/src/utils.ts            configuration, tip, retry send, guard,     *)
(*                               confirmation polling                       *)
(*   src/src/examples/native.ts  solTransfer, tokenTransfer,                *)
(*                               jupiterSwapSOLtoUSDC                       *)
(*   src/src/examples.ts         example1_solTransfer,                      *)
(*                               example2_tokenTransfer                     *)
(* One behaviour is one call of one exported function (variable entry).     *)
EXTENDS Integers, Sequences, FiniteSets, TLC

VARIABLES
  USE_LIGHTSPEED,       \* utils.ts:19, fixed for the life of the process
  entry,                \* the exported function that was called
  args,                 \* its arguments (after defaulting)
  pc,                   \* position of the single thread of control
  balance,              \* lamports held by the wallet on the ledger
  senderAccountExists,  \* the ledger holds the wallet's token account for the mint
  totalNeeded,          \* requiredLamports handed to checkBalanceForOperations
  totalRequired,        \* the amount the guard compared the balance with
  hasBalance,           \* the guard's return value: "none" | "true" | "false"
  needsAccountCreation, \* tokenTransfer / example2_tokenTransfer
  swapResp,             \* data of the swap-instructions response
  instructions,         \* the instruction list being composed
  blockhash,            \* value returned by getLatestBlockhash
  tx,                   \* the built VersionedTransaction
  maxAttempts,          \* sendTxWithRetries parameter
  attempt,              \* sendTxWithRetries loop counter
  sendLog,              \* transactions handed to sendRawTransaction, in order
  signature,            \* return value of sendTxWithRetries
  maxWaitTime,          \* monitorTransactionStatus parameter
  startTime,            \* monitorTransactionStatus local
  now,                  \* Date.now()
  queries,              \* getSignatureStatus calls made
  srcPending,           \* status source: polls answered pending before it resolves
  status,               \* last status.value received
  mResult,              \* return value of monitorTransactionStatus
  mOutcome,             \* how monitorTransactionStatus ended
  threw,                \* an exception left the called function
  reports,              \* console lines emitted
  steps,                \* the steps of the flow completed so far, in order
  polled,               \* the signature handed to monitorTransactionStatus
  apiError,             \* the aggregator call that failed, and its HTTP status
  net,                  \* network calls: outstanding now, and most ever outstanding at once
  env,                  \* which variables of .env are set (to a non-empty value)
  config,               \* what loading utils.ts has exported
  guardLog,             \* the return values of the guard's calls so far, in order
  tokenAmount,          \* parsed.info.tokenAmount of the sender's token account, once read
  calls                 \* the calls made so far, each with the Connection it went through

vars == << USE_LIGHTSPEED, entry, args, pc, balance, senderAccountExists, totalNeeded, totalRequired,
           hasBalance, needsAccountCreation, swapResp, instructions, blockhash,
           tx, maxAttempts, attempt, sendLog, signature, maxWaitTime, startTime,
           now, queries, srcPending, status, mResult, mOutcome, threw, reports,
           steps, polled, apiError, net, env, config, guardLog, tokenAmount, calls >>

-----------------------------------------------------------------------------
(* Bounds of the model *)

MaxDelta == 1            \* balances are drawn within MaxDelta of each threshold
MaxAttemptsArg == 4      \* maxAttempts of a direct sendTxWithRetries call: 0..MaxAttemptsArg
MaxWaitUnits == 3        \* maxWaitTime of a direct monitor call: 0..MaxWaitUnits intervals
MaxPending == 3          \* a resolving status source answers pending at most MaxPending times
MaxSetup == 1            \* setup instructions in a swap-instructions response
MaxLookupTables == 2     \* lookup-table addresses in a swap-instructions response

-----------------------------------------------------------------------------
(* Program constants *)

TIPS_VIBE_FEE == 1000000
TransferAmountSOL == 1000000
TxFee == 5000
AccountCreationRent == 2039280
SwapAmountIn == 1000000
SwapFeeAllowance == 10000
SwapPriorityFee == 50000
DefaultMaxAttempts == 3
DefaultMaxWaitTime == 30000
PollInterval == 1000
DefaultComputeUnits == 200000
DefaultPriorityFee == 1000
SwapComputeUnits == 400000
USDC_DECIMALS == 6
DefaultTokenAmount == 1
Example2Amount == 1000000

TIPS_VIBE_STATION == "53PhM3UTdMQWu5t81wcd35AHGc5xpmHoRjem7GQPvXjA"
DEFAULT_RECIPIENT == "DEFAULT_RECIPIENT"
USDC_MINT == "EPjFWdd5AufqSSqeM2qN1xzybapC8G4wEGGkZwyTDt1v"
WalletKey == "wallet.publicKey"

PlaceholderRecipient == "So11111111111111111111111111111111111111112"

NULL == "null"


-----------------------------------------------------------------------------
(* Values *)

Drivers == { "solTransfer", "tokenTransfer", "jupiterSwapSOLtoUSDC",
             "example1_solTransfer", "example2_tokenTransfer" }

Utilities == { "sendTxWithRetries", "monitorTransactionStatus",
               "checkBalanceForOperations" }

Entries == Drivers \cup Utilities

TokenDrivers == { "tokenTransfer", "example2_tokenTransfer" }

Blockhashes == { "blockhash1", "blockhash2" }

NoInstruction == [ kind |-> "none", from |-> NULL, to |-> NULL, amount |-> 0 ]

NoTx == [ payerKey |-> NULL, recentBlockhash |-> NULL,
          instructions |-> << >>, signed |-> FALSE, serializable |-> FALSE ]

EnvNames == { "RPC_ENDPOINT", "RPC_LIGHTSPEED_ENDPOINT", "WALLET_PATH", "DEFAULT_RECIPIENT" }

AllSet == [ n \in EnvNames |-> TRUE ]

BasicEndpoint == "RPC_ENDPOINT"

LightSpeedEndpoint == "RPC_LIGHTSPEED_ENDPOINT"

(* nothing exported yet: utils.ts has not been evaluated *)
NotLoaded == [ error |-> NULL, walletPath |-> NULL, defaultRecipient |-> NULL,
               connection |-> NULL, txSenderConnection |-> NULL ]

ConfigErrorNoWalletCheck(e) ==
  IF ~e["RPC_ENDPOINT"] THEN "RPC_ENDPOINT is not set in .env file"
  ELSE IF ~e["RPC_LIGHTSPEED_ENDPOINT"] THEN "RPC_LIGHTSPEED_ENDPOINT is not set in .env file"
  ELSE NULL

(* the three if (!process.env.X) throw new Error(...) in their order *)
ConfigError(e) ==
  IF ~e["RPC_ENDPOINT"] THEN "RPC_ENDPOINT is not set in .env file"
  ELSE IF ~e["RPC_LIGHTSPEED_ENDPOINT"] THEN "RPC_LIGHTSPEED_ENDPOINT is not set in .env file"
  ELSE IF ~e["WALLET_PATH"] THEN "WALLET_PATH is not set in .env file"
  ELSE NULL

LoadedBasicSender(e, useLightspeed) ==
  [ error |-> NULL,
    walletPath |-> "WALLET_PATH",
    defaultRecipient |-> IF e["DEFAULT_RECIPIENT"] THEN DEFAULT_RECIPIENT
                         ELSE PlaceholderRecipient,
    connection |-> BasicEndpoint,
    txSenderConnection |-> BasicEndpoint ]

(* the exports of utils.ts once the validation has passed *)
Loaded(e, useLightspeed) ==
  [ error |-> NULL,
    walletPath |-> "WALLET_PATH",
    defaultRecipient |-> IF e["DEFAULT_RECIPIENT"] THEN DEFAULT_RECIPIENT
                         ELSE PlaceholderRecipient,
    connection |-> BasicEndpoint,
    txSenderConnection |-> IF useLightspeed THEN LightSpeedEndpoint ELSE BasicEndpoint ]

(* connection.<op>(...): a read goes through the exported connection *)
ReadCall(op, cfg) == [ op |-> op, via |-> cfg.connection, tx |-> NoTx ]

(* txSenderConnection.sendRawTransaction(tx.serialize(), ...) *)
SubmitCall(t, cfg) == [ op |-> "sendRawTransaction", via |-> cfg.txSenderConnection, tx |-> t ]

NoCalls == [ out |-> 0, peak |-> 0 ]

Max(a, b) == IF a >= b THEN a ELSE b

(* k calls issued together, none of them awaited yet *)
Issued(n, k) == [ out |-> n.out + k, peak |-> Max(n.peak, n.out + k) ]

(* one outstanding call settled *)
Settled(n) == [ n EXCEPT !.out = n.out - 1 ]

NotAwaited(n) == Issued(n, 1)

(* await call(): one call issued and awaited until it settles *)
Awaited(n) == Settled(Issued(n, 1))

(* the sender's token account has not been parsed *)
NoTokenAmount == [ read |-> FALSE, amount |-> 0, decimals |-> 0 ]

(* status 0: the call failed without an HTTP response *)
NoApiError == [ call |-> "none", status |-> 0 ]

NoResp == [ setup |-> 0, cleanup |-> FALSE, tables |-> 0 ]

(* status.value of a getSignatureStatus response; NullStatus is value = null *)
NullStatus == [ confirmationStatus |-> "none", err |-> FALSE ]

Status(level, e) == [ confirmationStatus |-> level, err |-> e ]

(* statuses on which the polling loop goes on: neither if of utils.ts:169-179 fires *)
PendingStatuses == { NullStatus, Status("processed", FALSE) }

(* statuses on which one of the two ifs fires *)
ResolvedStatuses == { Status(l, e) : l \in { "confirmed", "finalized" }, e \in BOOLEAN }
                      \cup { Status("processed", TRUE) }

NeverResolves == 0 - 1

-----------------------------------------------------------------------------
(* utils.ts: addLightSpeedTip, addComputeBudget *)

SystemTransfer(fromPubkey, toPubkey, lamports) ==
  [ kind |-> "SystemProgram.transfer", from |-> fromPubkey, to |-> toPubkey,
    amount |-> lamports ]

SetComputeUnitLimit(units) ==
  [ kind |-> "setComputeUnitLimit", from |-> NULL, to |-> NULL, amount |-> units ]

SetComputeUnitPrice(microLamports) ==
  [ kind |-> "setComputeUnitPrice", from |-> NULL, to |-> NULL, amount |-> microLamports ]

TipInstruction(fromPubkey) == SystemTransfer(fromPubkey, TIPS_VIBE_STATION, TIPS_VIBE_FEE)

addLightSpeedTipAlways(instrs, fromPubkey, useLightspeed) ==
  Append(instrs, TipInstruction(fromPubkey))

addLightSpeedTipFirst(instrs, fromPubkey, useLightspeed) ==
  IF ~useLightspeed THEN instrs
  ELSE << TipInstruction(fromPubkey) >> \o instrs

(* the list after addLightSpeedTip(instructions, fromPubkey) *)
addLightSpeedTip(instrs, fromPubkey, useLightspeed) ==
  IF ~useLightspeed THEN instrs
  ELSE Append(instrs, TipInstruction(fromPubkey))

(* the list after addComputeBudget(instructions, computeUnits, priorityFee): unshift *)
addComputeBudget(instrs, computeUnits, priorityFee) ==
  << SetComputeUnitLimit(computeUnits), SetComputeUnitPrice(priorityFee) >> \o instrs

-----------------------------------------------------------------------------
(* utils.ts: checkBalanceForOperations *)

TotalRequiredAccumulating(requiredLamports, useLightspeed) ==
  IF useLightspeed THEN requiredLamports + (Len(guardLog) + 1) * TIPS_VIBE_FEE
  ELSE requiredLamports

TotalRequiredNoTip(requiredLamports, useLightspeed) == requiredLamports

TotalRequired(requiredLamports, useLightspeed) ==
  IF useLightspeed THEN requiredLamports + TIPS_VIBE_FEE ELSE requiredLamports

(* the guard's return value for a balance returned by getBalance *)
BalancePasses(bal, requiredLamports, useLightspeed) ==
  IF bal < TotalRequired(requiredLamports, useLightspeed) THEN FALSE ELSE TRUE

-----------------------------------------------------------------------------
(* utils.ts: sendTxWithRetries *)

(* what one pass through the try block can do *)
AttemptOutcomes(t) ==
  IF t.serializable THEN { "send_throws", "empty_signature", "signature" }
  ELSE { "serialize_throws" }

LoopRunsOneMore(att, maxAtt) == att <= maxAtt + 1

LoopStopsOneShort(att, maxAtt) == att < maxAtt

(* the for loop's condition *)
LoopContinues(att, maxAtt) == att <= maxAtt

CaughtSendOnly(outcome) == outcome \in { "send_throws", "empty_signature" }

(* outcomes that end in the catch block: every throw of the try block *)
Caught(outcome) == outcome \in { "serialize_throws", "send_throws", "empty_signature" }

(* whether sendRawTransaction was called in an attempt with this outcome *)
Submits(outcome) == outcome # "serialize_throws"

TxRebuiltOnRetry(t, att) ==
  IF att = 1 THEN t ELSE [ t EXCEPT !.recentBlockhash = "refetched" ]

(* the transaction serialized and submitted by attempt att of a call with argument t *)
TxOfAttempt(t, att) == t

SignatureOf(t) == "signature"

-----------------------------------------------------------------------------
(* utils.ts: monitorTransactionStatus *)

WithinWaitInclusive(t, start, maxWait) == t - start <= maxWait

(* the while condition *)
WithinWait(t, start, maxWait) == t - start < maxWait

IsConfirmed(st) == st.confirmationStatus = "confirmed" \/ st.confirmationStatus = "finalized"

HasErr(st) == st.err

(* which exit of the loop body a status takes: the ifs in source order *)
PollExit(st) ==
  IF IsConfirmed(st) THEN "confirmed"
  ELSE IF HasErr(st) THEN "failed"
  ELSE "continue"

(* return values: null is the empty sequence, a status.value is << value >> *)
ConfirmedReturn(st) == << st >>
FailedReturn == << >>
TimeoutReturn == << >>

(* time a status query may take *)
Latencies == { 0, PollInterval \div 2 }

(* the answer of the status source to its q-th query *)
SourceAnswers(pending, q) ==
  IF pending # NeverResolves /\ q > pending THEN ResolvedStatuses ELSE PendingStatuses

-----------------------------------------------------------------------------
(* The scenario drivers: arguments and the amounts they hand to the guard *)

NoArgs == [ recipient |-> NULL, mint |-> NULL, amount |-> 0 ]

Recipients == { DEFAULT_RECIPIENT, "recipientAddress" }

Mints == { USDC_MINT, "tokenMintAddress" }

(* the argument records a call of entry e can run with, defaults applied *)
ArgsOf(e) ==
  CASE e = "solTransfer" ->
         { [ recipient |-> r, mint |-> NULL, amount |-> TransferAmountSOL ] : r \in Recipients }
    [] e = "example1_solTransfer" ->
         { [ recipient |-> "DTFhyarmG9UJn2bnt29GLjcEKfPEFRQC7YCgywuhapAv", mint |-> NULL,
             amount |-> TransferAmountSOL ] }
    [] e = "tokenTransfer" ->
         { [ recipient |-> DEFAULT_RECIPIENT, mint |-> m, amount |-> DefaultTokenAmount ] :
             m \in Mints }
    [] e = "example2_tokenTransfer" ->
         { [ recipient |-> "RECIPIENT_PUBLIC_KEY", mint |-> "TOKEN_MINT_ADDRESS",
             amount |-> Example2Amount ] }
    [] e = "jupiterSwapSOLtoUSDC" ->
         { [ recipient |-> NULL, mint |-> USDC_MINT, amount |-> SwapAmountIn ] }
    [] OTHER -> { NoArgs }

DriverTotalNeededNoRent(e, needsCreation) ==
  CASE e = "solTransfer" -> TransferAmountSOL + TxFee
    [] e = "example1_solTransfer" -> TransferAmountSOL + TIPS_VIBE_FEE + TxFee
    [] e = "tokenTransfer" -> TxFee
    [] e = "example2_tokenTransfer" -> TIPS_VIBE_FEE + TxFee
    [] e = "jupiterSwapSOLtoUSDC" -> SwapAmountIn + SwapFeeAllowance + SwapPriorityFee
    [] OTHER -> 0

(* totalNeeded / totalSOLNeeded as each driver computes it *)
DriverTotalNeeded(e, needsCreation) ==
  CASE e = "solTransfer" -> TransferAmountSOL + TxFee
    [] e = "example1_solTransfer" -> TransferAmountSOL + TIPS_VIBE_FEE + TxFee
    [] e = "tokenTransfer" -> TxFee + (IF needsCreation THEN AccountCreationRent ELSE 0)
    [] e = "example2_tokenTransfer" ->
         TIPS_VIBE_FEE + TxFee + (IF needsCreation THEN AccountCreationRent ELSE 0)
    [] e = "jupiterSwapSOLtoUSDC" -> SwapAmountIn + SwapFeeAllowance + SwapPriorityFee
    [] OTHER -> 0

AfterGuardNoReturn(e, passed) ==
  CASE e \in { "solTransfer", "example1_solTransfer", "example2_tokenTransfer" } -> "compose"
    [] e = "tokenTransfer" -> "senderLookup"
    [] e = "jupiterSwapSOLtoUSDC" -> "quote"
    [] OTHER -> "done"

(* where the caller of the guard goes on its return value: if (!hasBalance) return *)
AfterGuard(e, passed) ==
  IF ~passed THEN "done"
  ELSE CASE e \in { "solTransfer", "example1_solTransfer", "example2_tokenTransfer" } -> "compose"
         [] e = "tokenTransfer" -> "senderLookup"
         [] e = "jupiterSwapSOLtoUSDC" -> "quote"
         [] OTHER -> "done"

(* tokenTransfer: tokenBalance < parseFloat(displayAmount), with                *)
(* tokenBalance = uiAmount = raw / 10^decimals and displayAmount =              *)
(* (amount / 10^6).toFixed(6) for USDC, amount.toString() for any other mint    *)
Pow10(n) == IF n = 0 THEN 1 ELSE IF n = 1 THEN 10 ELSE IF n = 2 THEN 100 ELSE 1000000

TokenBalanceInsufficient(mint, raw, decimals, amount) ==
  IF mint = USDC_MINT THEN raw < amount
  ELSE raw < amount * Pow10(decimals)

(* the core instructions each driver pushes after the compute budget *)
TokenTransferInstruction(a) ==
  [ kind |-> "createTransferInstruction", from |-> "senderTokenAccount",
    to |-> "recipientTokenAccount", amount |-> a.amount ]

CreateAccountInstruction(a) ==
  [ kind |-> "createAssociatedTokenAccountInstruction", from |-> WalletKey,
    to |-> "recipientTokenAccount", amount |-> 0 ]

JupiterInstruction(k) == [ kind |-> k, from |-> NULL, to |-> NULL, amount |-> 0 ]

Repeat(x, n) == [ i \in 1..n |-> x ]

(* the list each driver has built when it calls addLightSpeedTip *)
ComposedInstructions(e, a, needsCreation, resp) ==
  CASE e \in { "solTransfer", "example1_solTransfer" } ->
         Append(addComputeBudget(<< >>, DefaultComputeUnits, DefaultPriorityFee),
                SystemTransfer(WalletKey, a.recipient, a.amount))
    [] e \in TokenDrivers ->
         addComputeBudget(<< >>, DefaultComputeUnits, DefaultPriorityFee)
           \o (IF needsCreation THEN << CreateAccountInstruction(a) >> ELSE << >>)
           \o << TokenTransferInstruction(a) >>
    [] e = "jupiterSwapSOLtoUSDC" ->
         << SetComputeUnitLimit(SwapComputeUnits), SetComputeUnitPrice(SwapPriorityFee) >>
           \o Repeat(JupiterInstruction("setupInstruction"), resp.setup)
           \o << JupiterInstruction("swapInstruction") >>
           \o (IF resp.cleanup THEN << JupiterInstruction("cleanupInstruction") >> ELSE << >>)
    [] OTHER -> << >>

(* new TransactionMessage({...}).compileToV0Message(); new VersionedTransaction(message) *)
(* serializable: whether tx.serialize() succeeds on the built transaction (it throws  *)
(* when the encoded transaction overruns the buffer), the same at every call          *)
BuildTx(payer, recent, instrs, fits) ==
  [ payerKey |-> payer, recentBlockhash |-> recent, instructions |-> instrs,
    signed |-> FALSE, serializable |-> fits ]

Sign(t) == [ t EXCEPT !.signed = TRUE ]

(* the lines a driver prints between sendTxWithRetries and monitorTransactionStatus *)
SendReports(e, sig) ==
  CASE e \in { "solTransfer", "example1_solTransfer" } -> { "Transfer complete" }
    [] e = "example2_tokenTransfer" -> { "Token transfer complete" }
    [] e = "tokenTransfer" -> IF sig # NULL THEN { "Token transfer complete" } ELSE { }
    [] e = "jupiterSwapSOLtoUSDC" -> IF sig # NULL THEN { "Swap transaction sent" } ELSE { }
    [] OTHER -> { }

ConfirmationReportsAnyResult(e, result) ==
  IF e # "jupiterSwapSOLtoUSDC" THEN { }
  ELSE IF result # << >> THEN { "Swap confirmed successfully" }
  ELSE { }

(* the lines jupiterSwapSOLtoUSDC prints on the result of monitorTransactionStatus *)
ConfirmationReports(e, result) ==
  IF e # "jupiterSwapSOLtoUSDC" THEN { }
  ELSE IF result # << >> /\ ~HasErr(result[1]) THEN { "Swap confirmed successfully" }
  ELSE IF result # << >> /\ HasErr(result[1]) THEN { "Swap failed" }
  ELSE { }

CatchReportsOneMessage(httpStatus) ==
  { "Swap error" }
    \cup (IF httpStatus \in { 429, 400 } THEN { "Rate limited" } ELSE { })

(* fetches issued by the map over addressLookupTableAddresses before Promise.all *)
LookupCalls(tables) == tables

(* the catch block of jupiterSwapSOLtoUSDC *)
CatchReports(httpStatus) ==
  { "Swap error" }
    \cup (IF httpStatus = 429 THEN { "Rate limited" }
          ELSE IF httpStatus = 400 THEN { "Bad request" } ELSE { })

(* positions inside the try block of jupiterSwapSOLtoUSDC *)
InTry(e, p) == e = "jupiterSwapSOLtoUSDC" /\ p \notin { "start", "guard" }

-----------------------------------------------------------------------------
(* Initial states: one call of one exported function *)

DriverBalances == { 0, 2004999, 10000000 }

RequiredSamples == { 0, TxFee, TransferAmountSOL + TxFee }

GuardBalances ==
  { t + d : t \in { r + f : r \in RequiredSamples, f \in { 0, TIPS_VIBE_FEE } },
            d \in (0 - MaxDelta)..MaxDelta } \cap Nat

ArgumentTxs == { Sign(BuildTx(WalletKey, "blockhash1", << >>, fits)) : fits \in BOOLEAN }

cfgVars == << USE_LIGHTSPEED, entry, args, balance, senderAccountExists, env, config >>
guardVars == << totalNeeded, totalRequired, hasBalance, guardLog >>
composeVars == << needsAccountCreation, swapResp, instructions, blockhash, tx >>
sendVars == << maxAttempts, attempt, sendLog, signature >>
monVars == << maxWaitTime, startTime, now, queries, srcPending, status, mResult, mOutcome >>
histVars == << steps, polled >>
auxVars == << apiError, tokenAmount >>

(* the state in which a call of an exported function starts, but for pc, env, config *)
CallInit ==
  /\ USE_LIGHTSPEED \in BOOLEAN
  /\ entry \in Entries
  /\ args \in ArgsOf(entry)
  /\ balance \in (IF entry = "checkBalanceForOperations" THEN GuardBalances
                  ELSE IF entry \in Drivers THEN DriverBalances ELSE { 0 })
  /\ senderAccountExists \in (IF entry \in TokenDrivers THEN BOOLEAN ELSE { FALSE })
  /\ totalNeeded \in (IF entry = "checkBalanceForOperations" THEN RequiredSamples ELSE { 0 })
  /\ totalRequired = 0
  /\ hasBalance = "none"
  /\ needsAccountCreation = FALSE
  /\ swapResp = NoResp
  /\ instructions = << >>
  /\ blockhash = NULL
  /\ tx \in (IF entry = "sendTxWithRetries" THEN ArgumentTxs ELSE { NoTx })
  /\ maxAttempts \in (IF entry = "sendTxWithRetries" THEN 0..MaxAttemptsArg
                      ELSE { DefaultMaxAttempts })
  /\ attempt = 1
  /\ sendLog = << >>
  /\ signature = IF entry = "monitorTransactionStatus" THEN SignatureOf(tx) ELSE NULL
  /\ maxWaitTime \in (IF entry = "monitorTransactionStatus"
                      THEN { u * PollInterval : u \in 0..MaxWaitUnits }
                      ELSE { DefaultMaxWaitTime })
  /\ startTime = 0
  /\ now = 0
  /\ queries = 0
  /\ srcPending \in (IF entry = "monitorTransactionStatus"
                     THEN 0..MaxPending \cup { NeverResolves } ELSE { NeverResolves })
  /\ status = NullStatus
  /\ mResult = << >>
  /\ mOutcome = "none"
  /\ threw = FALSE
  /\ reports = { }
  /\ steps = << >>
  /\ polled = IF entry = "monitorTransactionStatus" THEN signature ELSE NULL
  /\ apiError = NoApiError
  /\ tokenAmount = NoTokenAmount
  /\ calls = { }
  /\ net = NoCalls
  /\ guardLog = << >>

(* where a call of the function starts *)
StartOf(e) ==
  CASE e = "sendTxWithRetries" -> "send"
    [] e = "monitorTransactionStatus" -> "monitorCheck"
    [] e = "checkBalanceForOperations" -> "guard"
    [] OTHER -> "start"

(* utils.ts was loaded with every variable set; one exported function is called *)
Init ==
  /\ CallInit
  /\ pc = StartOf(entry)
  /\ env = AllSet
  /\ config = Loaded(env, USE_LIGHTSPEED)

-----------------------------------------------------------------------------
(* Process start: the module body of utils.ts runs on import, then a utility is called *)

StartupEntries == { "checkBalanceForOperations", "sendTxWithRetries" }

StartupInit ==
  /\ CallInit
  /\ entry \in StartupEntries
  /\ pc = "load"
  /\ env \in [ EnvNames -> BOOLEAN ]
  /\ config = NotLoaded

(* utils.ts:19-54: validation, DEFAULT_RECIPIENT, the two Connection instances *)
LoadConfiguration ==
  /\ pc = "load"
  /\ IF ConfigError(env) # NULL
       THEN /\ config' = [ config EXCEPT !.error = ConfigError(env) ]
            /\ threw' = TRUE
            /\ pc' = "done"
            /\ UNCHANGED reports
       ELSE /\ config' = Loaded(env, USE_LIGHTSPEED)
            /\ reports' = reports \cup (IF env["DEFAULT_RECIPIENT"] THEN { }
                                         ELSE { "DEFAULT_RECIPIENT not set" })
            /\ pc' = StartOf(entry)
            /\ UNCHANGED threw
  /\ UNCHANGED << USE_LIGHTSPEED, entry, args, balance, senderAccountExists, env,
                  guardVars, composeVars, sendVars, monVars, histVars, auxVars, net, calls >>

-----------------------------------------------------------------------------
(* An exception raised at the current position: it leaves the called function, *)
(* except inside the try block of jupiterSwapSOLtoUSDC, whose catch reports it *)
Raise(httpStatus) ==
  /\ pc' = "done"
  /\ IF InTry(entry, pc)
       THEN threw' = threw /\ reports' = reports \cup CatchReports(httpStatus)
       ELSE threw' = TRUE /\ reports' = reports

-----------------------------------------------------------------------------
(* Drivers, up to the balance guard *)

(* solTransfer, example1_solTransfer, jupiterSwapSOLtoUSDC: totalNeeded from constants *)
CalculateTotalNeeded ==
  /\ pc = "start"
  /\ entry \in Drivers \ TokenDrivers
  /\ totalNeeded' = DriverTotalNeeded(entry, FALSE)
  /\ pc' = "guard"
  /\ UNCHANGED << cfgVars, totalRequired, hasBalance, guardLog, composeVars, sendVars,
                  monVars, threw, reports >>
  /\ UNCHANGED histVars
  /\ UNCHANGED auxVars
  /\ UNCHANGED net
  /\ UNCHANGED calls

(* tokenTransfer, example2_tokenTransfer: getAccountInfo(recipientTokenAccount) *)
RecipientLookup ==
  /\ pc = "start"
  /\ entry \in TokenDrivers
  /\ \/ \E exists \in BOOLEAN :
          /\ needsAccountCreation' = ~exists
          /\ totalNeeded' = DriverTotalNeeded(entry, ~exists)
          /\ pc' = "guard"
          /\ UNCHANGED << threw, reports >>
     \/ /\ Raise(0)
        /\ UNCHANGED << needsAccountCreation, totalNeeded >>
  /\ UNCHANGED << cfgVars, totalRequired, hasBalance, guardLog, swapResp, instructions,
                  blockhash, tx, sendVars, monVars >>
  /\ UNCHANGED histVars
  /\ UNCHANGED auxVars
  /\ net' = Awaited(net)
  /\ calls' = calls \cup { ReadCall("getAccountInfo", config) }

(* checkBalanceForOperations(wallet, totalNeeded), and the caller's if (!hasBalance) return *)
CheckBalance ==
  /\ pc = "guard"
  /\ \/ LET passed == BalancePasses(balance, totalNeeded, USE_LIGHTSPEED) IN
          /\ totalRequired' = TotalRequired(totalNeeded, USE_LIGHTSPEED)
          /\ hasBalance' = IF passed THEN "true" ELSE "false"
          /\ guardLog' = Append(guardLog, IF passed THEN "true" ELSE "false")
          /\ reports' = reports \cup
               { IF passed THEN "Balance check passed" ELSE "Insufficient balance" }
          /\ pc' = AfterGuard(entry, passed)
          /\ steps' = Append(steps, "guard")
          /\ UNCHANGED threw
     \/ /\ Raise(0)
        /\ UNCHANGED << totalRequired, hasBalance, guardLog, steps >>
  /\ UNCHANGED << cfgVars, totalNeeded, composeVars, sendVars, monVars, polled >>
  /\ UNCHANGED auxVars
  /\ net' = Awaited(net)
  /\ calls' = calls \cup { ReadCall("getBalance", config) }

(* a caller of the exported checkBalanceForOperations calls it once more with the *)
(* same wallet and amount; the locals of the new call are fresh                    *)
CheckBalanceAgain ==
  /\ entry = "checkBalanceForOperations"
  /\ pc = "done"
  /\ Len(guardLog) = 1
  /\ ~threw
  /\ pc' = "guard"
  /\ hasBalance' = "none"
  /\ totalRequired' = 0
  /\ UNCHANGED << cfgVars, totalNeeded, guardLog, composeVars, sendVars, monVars, histVars,
                  auxVars, net, calls, threw, reports >>

-----------------------------------------------------------------------------
(* tokenTransfer: the sender's token account and token balance *)

TokenRawBalances == { 0, 1, 100 }

TokenDecimals == { 0, 2 }

(* if (!senderTokenAccountInfo) { console.error(...); return; } *)
AfterSenderLookup(exists) == IF exists THEN "tokenBalance" ELSE "done"

(* getAccountInfo(senderTokenAccount); if (!senderTokenAccountInfo) return *)
SenderLookup ==
  /\ pc = "senderLookup"
  /\ \/ /\ pc' = AfterSenderLookup(senderAccountExists)
        /\ reports' = reports \cup (IF senderAccountExists THEN { } ELSE { "No token account" })
        /\ UNCHANGED threw
     \/ Raise(0)
  /\ UNCHANGED << cfgVars, guardVars, composeVars, sendVars, monVars >>
  /\ UNCHANGED histVars
  /\ UNCHANGED auxVars
  /\ net' = Awaited(net)
  /\ calls' = calls \cup { ReadCall("getAccountInfo", config) }

(* getParsedAccountInfo(senderTokenAccount); if (tokenBalance < displayAmount) return *)
TokenBalanceCheck ==
  /\ pc = "tokenBalance"
  /\ \/ \E raw \in TokenRawBalances, dec \in TokenDecimals :
          LET short == TokenBalanceInsufficient(args.mint, raw,
                         IF args.mint = USDC_MINT THEN USDC_DECIMALS ELSE dec, args.amount) IN
          /\ tokenAmount' = [ read |-> TRUE, amount |-> raw,
                               decimals |-> IF args.mint = USDC_MINT THEN USDC_DECIMALS ELSE dec ]
          /\ pc' = IF short THEN "done" ELSE "compose"
          /\ reports' = reports \cup (IF short THEN { "Insufficient token balance" } ELSE { })
          /\ UNCHANGED threw
     \/ /\ Raise(0)
        /\ UNCHANGED tokenAmount
  /\ UNCHANGED << cfgVars, guardVars, composeVars, sendVars, monVars >>
  /\ UNCHANGED histVars
  /\ UNCHANGED apiError
  /\ net' = Awaited(net)
  /\ calls' = calls \cup { ReadCall("getParsedAccountInfo", config) }

-----------------------------------------------------------------------------
(* jupiterSwapSOLtoUSDC: the two aggregator calls and the lookup tables *)

HttpFailures == { 429, 400, 500 }

(* axios.get(.../quote) *)
GetQuote ==
  /\ pc = "quote"
  /\ \/ /\ pc' = "swapInstructions"
        /\ UNCHANGED << threw, reports, apiError >>
     \/ \E code \in HttpFailures \cup { 0 } :
          /\ Raise(code)
          /\ apiError' = [ call |-> "quote", status |-> code ]
  /\ UNCHANGED tokenAmount
  /\ UNCHANGED << cfgVars, guardVars, composeVars, sendVars, monVars >>
  /\ UNCHANGED histVars
  /\ net' = Awaited(net)
  /\ UNCHANGED calls

(* axios.post(.../swap-instructions); if (!instructionsResponse.data) throw *)
GetSwapInstructions ==
  /\ pc = "swapInstructions"
  /\ \/ \E n \in 0..MaxSetup, c \in BOOLEAN, t \in 0..MaxLookupTables :
          /\ swapResp' = [ setup |-> n, cleanup |-> c, tables |-> t ]
          /\ pc' = "lookupTables"
          /\ UNCHANGED << threw, reports, apiError >>
     \/ /\ \E code \in HttpFailures \cup { 0 } :
             /\ Raise(code)
             /\ apiError' = [ call |-> "swap-instructions", status |-> code ]
        /\ UNCHANGED swapResp
  /\ UNCHANGED tokenAmount
  /\ UNCHANGED << cfgVars, guardVars, needsAccountCreation, instructions, blockhash, tx,
                  sendVars, monVars >>
  /\ UNCHANGED histVars
  /\ net' = Awaited(net)
  /\ UNCHANGED calls

(* Promise.all(addressLookupTableAddresses.map(async ... getAddressLookupTable)): *)
(* the map issues one fetch per address, none awaited before the next is issued   *)
LoadLookupTables ==
  /\ pc = "lookupTables"
  /\ net' = Issued(net, LookupCalls(swapResp.tables))
  /\ calls' = IF swapResp.tables = 0 THEN calls
               ELSE calls \cup { ReadCall("getAddressLookupTable", config) }
  /\ pc' = IF swapResp.tables = 0 THEN "compose" ELSE "awaitLookups"
  /\ UNCHANGED << cfgVars, guardVars, composeVars, sendVars, monVars, threw, reports >>
  /\ UNCHANGED histVars
  /\ UNCHANGED auxVars

(* one fetch settles; Promise.all fulfils when the last has, and rejects into the *)
(* catch block as soon as one fails, the others still outstanding                 *)
LookupSettles ==
  /\ pc = "awaitLookups"
  /\ net' = Settled(net)
  /\ UNCHANGED calls
  /\ \/ /\ pc' = IF net.out = 1 THEN "compose" ELSE "awaitLookups"
        /\ UNCHANGED << threw, reports >>
     \/ Raise(0)
  /\ UNCHANGED << cfgVars, guardVars, composeVars, sendVars, monVars >>
  /\ UNCHANGED histVars
  /\ UNCHANGED auxVars

-----------------------------------------------------------------------------
(* Common to the drivers: compose, tip, blockhash, build, sign *)

Compose ==
  /\ pc = "compose"
  /\ instructions' = ComposedInstructions(entry, args, needsAccountCreation, swapResp)
  /\ pc' = "tip"
  /\ UNCHANGED << cfgVars, guardVars, needsAccountCreation, swapResp, blockhash, tx,
                  sendVars, monVars, threw, reports >>
  /\ steps' = Append(steps, "compose")
  /\ UNCHANGED polled
  /\ UNCHANGED auxVars
  /\ UNCHANGED net
  /\ UNCHANGED calls

AttachTip ==
  /\ pc = "tip"
  /\ instructions' = addLightSpeedTip(instructions, WalletKey, USE_LIGHTSPEED)
  /\ pc' = "blockhash"
  /\ UNCHANGED << cfgVars, guardVars, needsAccountCreation, swapResp, blockhash, tx,
                  sendVars, monVars, threw, reports >>
  /\ steps' = Append(steps, "tip")
  /\ UNCHANGED polled
  /\ UNCHANGED auxVars
  /\ UNCHANGED net
  /\ UNCHANGED calls

(* connection.getLatestBlockhash('processed') *)
GetLatestBlockhash ==
  /\ pc = "blockhash"
  /\ \/ \E h \in Blockhashes :
          /\ blockhash' = h
          /\ pc' = "build"
          /\ steps' = Append(steps, "blockhash")
          /\ UNCHANGED << threw, reports >>
     \/ /\ Raise(0)
        /\ UNCHANGED << blockhash, steps >>
  /\ UNCHANGED << cfgVars, guardVars, needsAccountCreation, swapResp, instructions, tx,
                  sendVars, monVars, polled >>
  /\ UNCHANGED auxVars
  /\ net' = Awaited(net)
  /\ calls' = calls \cup { ReadCall("getLatestBlockhash", config) }

BuildTransaction ==
  /\ pc = "build"
  /\ \E fits \in BOOLEAN : tx' = BuildTx(WalletKey, blockhash, instructions, fits)
  /\ pc' = "sign"
  /\ UNCHANGED << cfgVars, guardVars, needsAccountCreation, swapResp, instructions, blockhash,
                  sendVars, monVars, threw, reports >>
  /\ steps' = Append(steps, "build")
  /\ UNCHANGED polled
  /\ UNCHANGED auxVars
  /\ UNCHANGED net
  /\ UNCHANGED calls

SignTransaction ==
  /\ pc = "sign"
  /\ tx' = Sign(tx)
  /\ pc' = "send"
  /\ UNCHANGED << cfgVars, guardVars, needsAccountCreation, swapResp, instructions, blockhash,
                  sendVars, monVars, threw, reports >>
  /\ steps' = Append(steps, "sign")
  /\ UNCHANGED polled
  /\ UNCHANGED auxVars
  /\ UNCHANGED net
  /\ UNCHANGED calls

-----------------------------------------------------------------------------
(* utils.ts: sendTxWithRetries(tx, maxAttempts) *)

(* signature holds Rejected when the promise of sendTxWithRetries rejected *)
Rejected == "rejected"

AfterSend(e) == IF e \in Drivers THEN "sent" ELSE "done"

(* one iteration of the for loop: serialize, sendRawTransaction, return or catch *)
SendAttempt ==
  /\ pc = "send"
  /\ LoopContinues(attempt, maxAttempts)
  /\ \E o \in AttemptOutcomes(tx) :
       /\ sendLog' = IF Submits(o) THEN Append(sendLog, TxOfAttempt(tx, attempt)) ELSE sendLog
       /\ net' = IF Submits(o) THEN Awaited(net) ELSE net
       /\ calls' = IF Submits(o) THEN calls \cup { SubmitCall(TxOfAttempt(tx, attempt), config) }
                   ELSE calls
       /\ IF o = "signature"
            THEN /\ signature' = SignatureOf(tx)
                 /\ pc' = AfterSend(entry)
                 /\ steps' = Append(steps, "submit")
                 /\ UNCHANGED << attempt, threw, reports >>
            ELSE IF Caught(o)
            THEN /\ attempt' = attempt + 1
                 /\ pc' = "send"
                 /\ UNCHANGED << signature, threw, reports, steps >>
            ELSE /\ signature' = Rejected
                 /\ Raise(0)
                 /\ UNCHANGED << attempt, steps >>
  /\ UNCHANGED << cfgVars, guardVars, composeVars, maxAttempts, monVars, polled >>
  /\ UNCHANGED auxVars

(* the loop ran out: return null *)
SendGiveUp ==
  /\ pc = "send"
  /\ ~LoopContinues(attempt, maxAttempts)
  /\ signature' = NULL
  /\ pc' = AfterSend(entry)
  /\ UNCHANGED << cfgVars, guardVars, composeVars, maxAttempts, attempt, sendLog, monVars,
                  threw, reports >>
  /\ steps' = Append(steps, "submit")
  /\ UNCHANGED polled
  /\ UNCHANGED auxVars
  /\ UNCHANGED net
  /\ UNCHANGED calls

ShouldMonitorAlways(sig) == TRUE

(* if (signature) { await monitorTransactionStatus(signature); } *)
ShouldMonitor(sig) == sig # NULL

(* the argument of the monitorTransactionStatus call *)
MonitorArgument(sig) == sig

(* the driver's lines after sendTxWithRetries, and its if (signature) *)
ReportSend ==
  /\ pc = "sent"
  /\ reports' = reports \cup SendReports(entry, signature)
  /\ IF ShouldMonitor(signature)
       THEN /\ pc' = "monitorCheck"
            /\ polled' = MonitorArgument(signature)
            /\ steps' = Append(steps, "poll")
            /\ startTime' = now
            /\ srcPending' \in 0..MaxPending \cup { NeverResolves }
       ELSE /\ pc' = "done"
            /\ UNCHANGED << startTime, srcPending, histVars >>
  /\ UNCHANGED << cfgVars, guardVars, composeVars, sendVars, maxWaitTime, now, queries,
                  status, mResult, mOutcome, threw >>
  /\ UNCHANGED auxVars
  /\ UNCHANGED net
  /\ UNCHANGED calls

-----------------------------------------------------------------------------
(* utils.ts: monitorTransactionStatus(signature, maxWaitTime) *)

AfterMonitor(e) == IF e \in Drivers THEN "monitored" ELSE "done"

(* while (Date.now() - startTime < maxWaitTime); past the loop: timeout, return null *)
MonitorCheck ==
  /\ pc = "monitorCheck"
  /\ IF WithinWait(now, startTime, maxWaitTime)
       THEN /\ pc' = "monitorQuery"
            /\ UNCHANGED << mResult, mOutcome, reports >>
       ELSE /\ mResult' = TimeoutReturn
            /\ mOutcome' = "timed_out"
            /\ reports' = reports \cup { "Transaction confirmation timeout" }
            /\ pc' = AfterMonitor(entry)
  /\ UNCHANGED << cfgVars, guardVars, composeVars, sendVars, maxWaitTime, startTime, now,
                  queries, srcPending, status, threw >>
  /\ UNCHANGED histVars
  /\ UNCHANGED auxVars
  /\ UNCHANGED net
  /\ UNCHANGED calls

(* await connection.getSignatureStatus(signature) and the two ifs *)
MonitorQuery ==
  /\ pc = "monitorQuery"
  /\ queries' = queries + 1
  /\ \E lat \in Latencies : now' = now + lat
  /\ \/ \E st \in SourceAnswers(srcPending, queries + 1) :
          /\ status' = st
          /\ CASE PollExit(st) = "confirmed" ->
                    /\ mResult' = ConfirmedReturn(st)
                    /\ mOutcome' = "confirmed"
                    /\ reports' = reports \cup { "Transaction confirmed" }
                    /\ pc' = AfterMonitor(entry)
               [] PollExit(st) = "failed" ->
                    /\ mResult' = FailedReturn
                    /\ mOutcome' = "failed"
                    /\ reports' = reports \cup { "Transaction failed" }
                    /\ pc' = AfterMonitor(entry)
               [] OTHER ->
                    /\ pc' = "monitorSleep"
                    /\ UNCHANGED << mResult, mOutcome, reports >>
          /\ UNCHANGED threw
     \/ /\ mOutcome' = "threw"
        /\ Raise(0)
        /\ UNCHANGED << status, mResult >>
  /\ UNCHANGED << cfgVars, guardVars, composeVars, sendVars, maxWaitTime, startTime,
                  srcPending >>
  /\ UNCHANGED histVars
  /\ UNCHANGED auxVars
  /\ net' = Awaited(net)
  /\ calls' = calls \cup { ReadCall("getSignatureStatus", config) }

(* await new Promise(resolve => setTimeout(resolve, 1000)); the iteration ends and *)
(* its block-scoped status goes out of scope                                       *)
MonitorSleep ==
  /\ pc = "monitorSleep"
  /\ now' = now + PollInterval
  /\ status' = NullStatus
  /\ pc' = "monitorCheck"
  /\ UNCHANGED << cfgVars, guardVars, composeVars, sendVars, maxWaitTime, startTime, queries,
                  srcPending, mResult, mOutcome, threw, reports >>
  /\ UNCHANGED histVars
  /\ UNCHANGED auxVars
  /\ UNCHANGED net
  /\ UNCHANGED calls

(* jupiterSwapSOLtoUSDC: the lines on the result; the other drivers ignore it *)
ReportConfirmation ==
  /\ pc = "monitored"
  /\ reports' = reports \cup ConfirmationReports(entry, mResult)
  /\ pc' = "done"
  /\ UNCHANGED << cfgVars, guardVars, composeVars, sendVars, monVars, threw >>
  /\ UNCHANGED histVars
  /\ UNCHANGED auxVars
  /\ UNCHANGED net
  /\ UNCHANGED calls

-----------------------------------------------------------------------------

Next ==
  \/ CalculateTotalNeeded
  \/ RecipientLookup
  \/ CheckBalance
  \/ CheckBalanceAgain
  \/ SenderLookup
  \/ TokenBalanceCheck
  \/ GetQuote
  \/ GetSwapInstructions
  \/ LoadLookupTables
  \/ LookupSettles
  \/ Compose
  \/ AttachTip
  \/ GetLatestBlockhash
  \/ BuildTransaction
  \/ SignTransaction
  \/ SendAttempt
  \/ SendGiveUp
  \/ ReportSend
  \/ MonitorCheck
  \/ MonitorQuery
  \/ MonitorSleep
  \/ ReportConfirmation

Spec == Init /\ [][Next]_vars

(* The runs checked for termination: every entry, every guard outcome, every  *)
(* failure of a call, every number of attempts and every status source, with  *)
(* the answers that only label the transaction held to one value each         *)
LiveInputs ==
  /\ args.recipient # "recipientAddress"
  /\ blockhash \in { NULL, "blockhash1" }
  /\ swapResp \in { NoResp,
                     [ setup |-> MaxSetup, cleanup |-> TRUE, tables |-> MaxLookupTables ] }
  /\ tokenAmount.read => (tokenAmount.amount \in { 0, 100 } /\ tokenAmount.decimals # 0)

LiveInit == Init /\ LiveInputs

LiveNext ==
  \/ CalculateTotalNeeded /\ LiveInputs'
  \/ RecipientLookup /\ LiveInputs'
  \/ CheckBalance /\ LiveInputs'
  \/ CheckBalanceAgain /\ LiveInputs'
  \/ SenderLookup /\ LiveInputs'
  \/ TokenBalanceCheck /\ LiveInputs'
  \/ GetQuote /\ LiveInputs'
  \/ GetSwapInstructions /\ LiveInputs'
  \/ LoadLookupTables /\ LiveInputs'
  \/ LookupSettles /\ LiveInputs'
  \/ Compose /\ LiveInputs'
  \/ AttachTip /\ LiveInputs'
  \/ GetLatestBlockhash /\ LiveInputs'
  \/ BuildTransaction /\ LiveInputs'
  \/ SignTransaction /\ LiveInputs'
  \/ SendAttempt /\ LiveInputs'
  \/ SendGiveUp /\ LiveInputs'
  \/ ReportSend /\ LiveInputs'
  \/ MonitorCheck /\ LiveInputs'
  \/ MonitorQuery /\ LiveInputs'
  \/ MonitorSleep /\ LiveInputs'
  \/ ReportConfirmation /\ LiveInputs'

(* every awaited call returns or raises, and the timer of the sleep fires: *)
(* a step that can be taken is eventually taken                           *)
FairSpec == LiveInit /\ [][LiveNext]_vars /\ WF_vars(LiveNext)

StartupNext ==
  \/ LoadConfiguration
  \/ CheckBalance
  \/ SendAttempt
  \/ SendGiveUp

StartupSpec == StartupInit /\ [][StartupNext]_vars

TypeOK ==
  /\ USE_LIGHTSPEED \in BOOLEAN
  /\ entry \in Entries
  /\ hasBalance \in { "none", "true", "false" }
  /\ signature \in { NULL, "signature", Rejected }
  /\ mOutcome \in { "none", "confirmed", "failed", "timed_out", "threw" }
  /\ attempt \in 1..(maxAttempts + 1)
  /\ threw \in BOOLEAN
  /\ senderAccountExists \in BOOLEAN

-----------------------------------------------------------------------------
(* Properties *)

(* C1: sendTxWithRetries on a transaction whose submission calls fail N times    *)
(* (N < maxAttempts) and then succeed returns the identifier of attempt N+1      *)
(* after exactly N+1 submission calls and makes no call afterwards; when every   *)
(* submission call fails it returns null after exactly maxAttempts calls.        *)
C1_RetryCounts ==
  /\ [][ (pc = "send" /\ pc' # "send" /\ tx.serializable) =>
           \/ /\ signature' = SignatureOf(sendLog'[attempt])
              /\ Len(sendLog) = attempt - 1
              /\ Len(sendLog') = attempt
              /\ attempt <= maxAttempts
           \/ /\ signature' = NULL
              /\ Len(sendLog') = maxAttempts
              /\ sendLog' = sendLog ]_vars
  /\ [][ pc # "send" => sendLog' = sendLog ]_vars

C1_Witness ==
  /\ entry = "sendTxWithRetries"
  /\ pc = "done"
  /\ maxAttempts = 4
  /\ attempt = 3
  /\ Len(sendLog) = 3
  /\ signature = SignatureOf(tx)

MonitorReturned == mOutcome \in { "confirmed", "failed", "timed_out" }

Elapsed == now - startTime

(* C2, as claimed: a source pending for k polls and resolving on the next, with  *)
(* k * interval < timeout, is polled exactly k+1 times and never times out; a    *)
(* source that never resolves times out after timeout / interval queries, give   *)
(* or take one.                                                                  *)
C2_AsClaimed ==
  /\ (mOutcome = "timed_out" /\ srcPending # NeverResolves) =>
       ~(srcPending * PollInterval < maxWaitTime)
  /\ (mOutcome \in { "confirmed", "failed" }) => queries = srcPending + 1
  /\ (mOutcome = "timed_out" /\ srcPending = NeverResolves) =>
       /\ queries >= (maxWaitTime \div PollInterval) - 1
       /\ queries <= (maxWaitTime \div PollInterval) + 1

(* C2, amended: the bound is on elapsed wall-clock time, which the status        *)
(* queries themselves consume. A source pending for k polls and confirmed on the *)
(* next is answered confirmed after exactly k+1 queries unless the elapsed time  *)
(* has reached the bound when a query is due; polling that times out has made at *)
(* most ceil(timeout / interval) queries, one interval of sleep after each, and  *)
(* exactly that many (and only if k * interval >= timeout) when the queries took *)
(* no time.                                                                      *)
C2_PollingCounts ==
  /\ (mOutcome = "confirmed") =>
       /\ queries = srcPending + 1
       /\ mResult = << status >>
       /\ IsConfirmed(status)
       /\ Elapsed >= srcPending * PollInterval
  /\ (mOutcome = "timed_out") =>
       /\ Elapsed >= maxWaitTime
       /\ Elapsed >= queries * PollInterval
       /\ queries > 0 => (queries - 1) * PollInterval < maxWaitTime
       /\ srcPending # NeverResolves => queries <= srcPending
       /\ Elapsed = queries * PollInterval =>
            /\ queries * PollInterval >= maxWaitTime
            /\ srcPending # NeverResolves => srcPending * PollInterval >= maxWaitTime

C2_Witness ==
  /\ mOutcome = "timed_out"
  /\ maxWaitTime = DefaultMaxWaitTime
  /\ queries = DefaultMaxWaitTime \div PollInterval
  /\ Elapsed = DefaultMaxWaitTime

(* C3: checkBalanceForOperations returns true exactly when the balance is at     *)
(* least requiredLamports plus the tip when tips are enabled, and the            *)
(* insufficient case is the return value false, not an exception.                *)
C3_GuardIff ==
  /\ hasBalance # "none" =>
       ( hasBalance = "true" <=>
           balance >= totalNeeded + (IF USE_LIGHTSPEED THEN TIPS_VIBE_FEE ELSE 0) )
  /\ hasBalance = "false" => ~threw
  /\ (entry = "checkBalanceForOperations" /\ pc = "done" /\ ~threw) => hasBalance # "none"

C3_Witness ==
  /\ entry = "checkBalanceForOperations"
  /\ pc = "done"
  /\ USE_LIGHTSPEED
  /\ hasBalance = "false"
  /\ balance >= totalNeeded
  /\ balance = totalNeeded + TIPS_VIBE_FEE - 1

IsTip(i) == i = TipInstruction(WalletKey)

(* C4: the instruction list a driver hands to transaction building starts with   *)
(* the compute-unit-limit and compute-unit-price instructions, ends with the tip *)
(* instruction when tips are enabled, and holds no tip instruction when they are *)
(* disabled.                                                                     *)
C4_InstructionOrder ==
  (entry \in Drivers /\ tx # NoTx) =>
    LET l == tx.instructions IN
    /\ Len(l) >= 3
    /\ l[1].kind = "setComputeUnitLimit"
    /\ l[2].kind = "setComputeUnitPrice"
    /\ USE_LIGHTSPEED => IsTip(l[Len(l)])
    /\ USE_LIGHTSPEED => \A i \in 1..(Len(l) - 1) : ~IsTip(l[i])
    /\ ~USE_LIGHTSPEED => \A i \in 1..Len(l) : ~IsTip(l[i])

C4_Witness ==
  /\ entry = "jupiterSwapSOLtoUSDC"
  /\ USE_LIGHTSPEED
  /\ tx.signed
  /\ swapResp.setup = 1
  /\ swapResp.cleanup
  /\ Len(tx.instructions) = 6
  /\ IsTip(tx.instructions[6])

SuccessReports == { "Transfer complete", "Token transfer complete",
                    "Swap confirmed successfully" }

(* C5: a driver prints a success or complete line only for a transaction whose   *)
(* identifier was obtained and whose polling ended confirmed or finalized:      *)
(* when the driver has returned, a success line implies both.                    *)
C5_NoFalseSuccess ==
  (pc = "done" /\ reports \cap SuccessReports # { }) =>
    /\ signature # NULL
    /\ mOutcome = "confirmed"

(* C6: the value monitorTransactionStatus returns when polling ends failed       *)
(* differs from the value it returns when polling times out.                     *)
C6_DistinctResults ==
  mOutcome = "failed" => mResult # TimeoutReturn

(* C7: a status that carries a transaction error ends polling in the failed      *)
(* outcome whatever its confirmation level; the success outcome is returned only *)
(* for a confirmed or finalized status without error.                            *)
C7_ErrorMeansFailed ==
  /\ (MonitorReturned /\ HasErr(status)) => mOutcome = "failed"
  /\ mOutcome = "confirmed" => (IsConfirmed(status) /\ ~HasErr(status))

(* C8, as claimed: no two submission calls of a run carry the same transaction.  *)
C8_NeverReused ==
  \A i, j \in 1..Len(sendLog) : i # j => sendLog[i] # sendLog[j]

(* C8, amended: a run builds and signs one transaction, from the blockhash it    *)
(* fetched, and every submission call of the run, at most maxAttempts of them,   *)
(* carries that same transaction: the retry attempts resubmit it unchanged.      *)
C8_OneTransactionPerRun ==
  /\ [](/\ Len(sendLog) <= maxAttempts
        /\ \A i \in 1..Len(sendLog) :
             /\ sendLog[i] = tx
             /\ tx.signed
             /\ entry \in Drivers =>
                  (tx.recentBlockhash = blockhash /\ blockhash \in Blockhashes))
  /\ [][ tx.signed => tx' = tx ]_vars

C8_Witness ==
  /\ entry = "solTransfer"
  /\ Len(sendLog) = 3
  /\ sendLog[1] = sendLog[3]
  /\ signature = SignatureOf(tx)
  /\ tx.recentBlockhash = "blockhash2"

(* C9: sendTxWithRetries never rejects: an attempt that throws in serialize or   *)
(* in the send, or that gets an empty identifier, is a failed attempt followed   *)
(* by the next one, and after the last failed attempt null is returned.          *)
C9_NoPropagation ==
  /\ [](signature # Rejected)
  /\ [][ pc = "send" =>
           \/ /\ pc' = "send"
              /\ attempt <= maxAttempts
              /\ attempt' = attempt + 1
              /\ signature' = signature
              /\ threw' = threw
           \/ /\ pc' = AfterSend(entry)
              /\ signature' = SignatureOf(tx)
              /\ attempt <= maxAttempts
              /\ threw' = threw
           \/ /\ pc' = AfterSend(entry)
              /\ signature' = NULL
              /\ attempt = maxAttempts + 1
              /\ threw' = threw ]_vars

C9_Witness ==
  /\ entry = "sendTxWithRetries"
  /\ ~tx.serializable
  /\ maxAttempts = 2
  /\ attempt = 3
  /\ pc = "done"
  /\ signature = NULL
  /\ ~threw

GuardOrAccountCheckFailed == hasBalance = "false" \/ "No token account" \in reports

(* C10: once the balance guard has returned insufficient, or the sender's token  *)
(* account was found missing, the driver has returned: no blockhash is fetched,  *)
(* nothing is composed, built, signed or submitted, and no status is polled.     *)
C10_EarlyReturn ==
  GuardOrAccountCheckFailed =>
    /\ pc = "done"
    /\ instructions = << >>
    /\ blockhash = NULL
    /\ tx = NoTx
    /\ sendLog = << >>
    /\ signature = NULL
    /\ queries = 0
    /\ ~threw

C10_Witness ==
  /\ entry = "jupiterSwapSOLtoUSDC"
  /\ hasBalance = "false"
  /\ balance = 2004999
  /\ USE_LIGHTSPEED
  /\ pc = "done"

(* C11: no token-transfer transaction is built or submitted while the sender's  *)
(* token account for the mint does not exist: both token-transfer drivers check *)
(* for it before composing and abort when it is absent.                         *)
C11_SenderAccountRequired ==
  (entry \in TokenDrivers /\ ~senderAccountExists) =>
     /\ instructions = << >>
     /\ tx = NoTx
     /\ sendLog = << >>


FlowSteps == << "guard", "compose", "tip", "blockhash", "build", "sign", "submit", "poll" >>

IsPrefix(a, b) == Len(a) <= Len(b) /\ a = SubSeq(b, 1, Len(a))

(* C12: in every run of a driver that submits, the steps happen in this order,  *)
(* each completed before the next begins: balance guard, instruction            *)
(* composition, tip attachment, blockhash retrieval, transaction build,         *)
(* signing, submit-with-retry, confirmation polling; polling starts only when   *)
(* the submit step returned an identifier, and with exactly that identifier.    *)
C12_StepOrder ==
  entry \in Drivers =>
    /\ IsPrefix(steps, FlowSteps)
    /\ sendLog # << >> => IsPrefix(SubSeq(FlowSteps, 1, 6), steps)
    /\ (queries > 0 \/ Len(steps) = 8) =>
         /\ steps = FlowSteps
         /\ signature # NULL
         /\ polled = signature
         /\ sendLog # << >>
    /\ (Len(steps) = 7 /\ signature = NULL) => (pc \in { "sent", "done" } /\ queries = 0)

C12_Witness ==
  /\ entry = "jupiterSwapSOLtoUSDC"
  /\ steps = FlowSteps
  /\ Len(sendLog) = 2
  /\ polled = SignatureOf(tx)
  /\ mOutcome = "confirmed"


(* C13: in the swap scenario a failed get-quote or get-swap-instructions call   *)
(* ends the run with no transaction built, signed or submitted; a failure with  *)
(* HTTP status 429 is reported with the rate-limit message, one with status 400 *)
(* with the distinct bad-request message, and the failure does not leave the    *)
(* driver as an exception.                                                      *)
C13_AggregatorFailure ==
  apiError # NoApiError =>
    /\ entry = "jupiterSwapSOLtoUSDC"
    /\ pc = "done"
    /\ instructions = << >>
    /\ tx = NoTx
    /\ sendLog = << >>
    /\ signature = NULL
    /\ ~threw
    /\ "Swap error" \in reports
    /\ "Rate limited" \in reports <=> apiError.status = 429
    /\ "Bad request" \in reports <=> apiError.status = 400

C13_Witness ==
  /\ apiError = [ call |-> "swap-instructions", status |-> 400 ]
  /\ reports = { "Balance check passed", "Swap error", "Bad request" }
  /\ pc = "done"


KindCount(l, k) == Cardinality({ i \in 1..Len(l) : l[i].kind = k })

KindBefore(l, k1, k2) ==
  \A i, j \in 1..Len(l) : (l[i].kind = k1 /\ l[j].kind = k2) => i < j

(* C14: in a token-transfer driver, when the recipient's associated token        *)
(* account does not exist the composed list holds exactly one account-creation  *)
(* instruction, placed before the token-transfer instruction, and the total     *)
(* handed to the balance guard includes the account rent; when the account      *)
(* exists there is no creation instruction and no rent in the total.            *)
C14_AccountCreation ==
  entry \in TokenDrivers =>
    /\ hasBalance # "none" =>
         (totalNeeded - (IF needsAccountCreation THEN AccountCreationRent ELSE 0))
            \in { TxFee, TIPS_VIBE_FEE + TxFee }
    /\ instructions # << >> =>
         /\ KindCount(instructions, "createTransferInstruction") = 1
         /\ KindCount(instructions, "createAssociatedTokenAccountInstruction")
              = (IF needsAccountCreation THEN 1 ELSE 0)
         /\ KindBefore(instructions, "createAssociatedTokenAccountInstruction",
                       "createTransferInstruction")
    /\ tx # NoTx =>
         /\ KindCount(tx.instructions, "createAssociatedTokenAccountInstruction")
              = (IF needsAccountCreation THEN 1 ELSE 0)
         /\ KindBefore(tx.instructions, "createAssociatedTokenAccountInstruction",
                       "createTransferInstruction")

C14_Witness ==
  /\ entry = "tokenTransfer"
  /\ needsAccountCreation
  /\ totalNeeded = TxFee + AccountCreationRent
  /\ tx.signed
  /\ Len(tx.instructions) = 4
  /\ tx.instructions[3].kind = "createAssociatedTokenAccountInstruction"
  /\ tx.instructions[4].kind = "createTransferInstruction"
  /\ sendLog # << >>


(* C15: addLightSpeedTip(instructions, payer) leaves the list unchanged when    *)
(* tips are disabled; when they are enabled the list grows by exactly one       *)
(* element, appended at the end, a transfer of TIPS_VIBE_FEE from the payer to  *)
(* TIPS_VIBE_STATION, and every element already in the list keeps its value and *)
(* position; the operation never fails.                                         *)
C15_TipFrame ==
  [][ pc = "tip" =>
        /\ ~USE_LIGHTSPEED => instructions' = instructions
        /\ USE_LIGHTSPEED =>
             /\ Len(instructions') = Len(instructions) + 1
             /\ \A i \in 1..Len(instructions) : instructions'[i] = instructions[i]
             /\ instructions'[Len(instructions')] =
                  [ kind |-> "SystemProgram.transfer", from |-> WalletKey,
                    to |-> TIPS_VIBE_STATION, amount |-> TIPS_VIBE_FEE ]
        /\ threw' = threw
        /\ pc' = "blockhash" ]_vars

C15_Witness ==
  /\ pc = "blockhash"
  /\ USE_LIGHTSPEED
  /\ entry = "example2_tokenTransfer"
  /\ needsAccountCreation
  /\ Len(instructions) = 5
  /\ IsTip(instructions[5])
  /\ instructions[4] = TokenTransferInstruction(args)


(* the tip as the README states it: 0.001001 SOL, in lamports *)
DocumentedTipLamports == 1001000

(* C16: when tips are enabled the tip is 0.001001 SOL: every transfer to         *)
(* TIPS_VIBE_STATION that a driver puts in its list carries 1,001,000 lamports.  *)
C16_TipAmount ==
  \A i \in 1..Len(instructions) :
     (instructions[i].kind = "SystemProgram.transfer"
        /\ instructions[i].to = TIPS_VIBE_STATION) =>
       instructions[i].amount = DocumentedTipLamports


(* what the operation of a driver costs apart from the tip: the amount sent in  *)
(* lamports, the fee allowances, and the rent of an account to be created       *)
BaseCost(e, needsCreation) ==
  CASE e \in { "solTransfer", "example1_solTransfer" } -> TransferAmountSOL + TxFee
    [] e \in TokenDrivers -> TxFee + (IF needsCreation THEN AccountCreationRent ELSE 0)
    [] e = "jupiterSwapSOLtoUSDC" -> SwapAmountIn + SwapFeeAllowance + SwapPriorityFee
    [] OTHER -> 0

(* C17: in every driver the total compared against the payer's balance is the   *)
(* operation's base cost plus the fixed tip counted exactly once when tips are  *)
(* enabled, and not at all when they are disabled.                              *)
C17_TipCountedOnce ==
  (entry \in Drivers /\ hasBalance # "none") =>
     totalRequired = BaseCost(entry, needsAccountCreation)
                       + (IF USE_LIGHTSPEED THEN TIPS_VIBE_FEE ELSE 0)


(* C18, as claimed: within one run at most one network call is outstanding at   *)
(* any time.                                                                    *)
C18_AtMostOneOutstanding == net.out <= 1 /\ net.peak <= 1

(* C18, amended: within one run at most one network call is outstanding at any  *)
(* time, except while the swap scenario loads its lookup tables: the fetches of *)
(* all tables named by the swap-instructions response are issued together and   *)
(* awaited jointly, so up to that many calls are outstanding at once, and stay  *)
(* so when one of them fails and ends the run. No call is ever issued while     *)
(* another is outstanding, apart from the fetches issued together.              *)
C18_OneCallExceptLookups ==
  /\ [](net.out > 0 =>
          /\ entry = "jupiterSwapSOLtoUSDC"
          /\ net.out <= swapResp.tables
          /\ pc = "awaitLookups" \/ (pc = "done" /\ tx = NoTx /\ sendLog = << >>))
  /\ [](net.peak <= Max(1, swapResp.tables))
  /\ [](entry # "jupiterSwapSOLtoUSDC" => net.peak <= 1)
  /\ [][ net'.peak > net.peak => net.out = 0 ]_vars
  /\ [][ net'.out > net.out => pc = "lookupTables" ]_vars

C18_Witness ==
  /\ entry = "jupiterSwapSOLtoUSDC"
  /\ pc = "awaitLookups"
  /\ swapResp.tables = 2
  /\ net = [ out |-> 2, peak |-> 2 ]


RequiredNames == { "RPC_ENDPOINT", "RPC_LIGHTSPEED_ENDPOINT", "WALLET_PATH" }

(* C19: configuration is validated eagerly. When the submission endpoint URL,    *)
(* the basic endpoint URL or the wallet path is missing, startup fails with an  *)
(* error before any connection is created, any wallet path resolved or any      *)
(* network call made; a missing default recipient is not fatal: startup goes    *)
(* on with the placeholder address.                                             *)
C19_EagerValidation ==
  pc # "load" =>
    /\ (\E n \in RequiredNames : ~env[n]) =>
         /\ threw
         /\ pc = "done"
         /\ config.error # NULL
         /\ config.connection = NULL
         /\ config.txSenderConnection = NULL
         /\ config.walletPath = NULL
         /\ net = NoCalls
         /\ hasBalance = "none"
         /\ sendLog = << >>
    /\ (\A n \in RequiredNames : env[n]) =>
         /\ config.error = NULL
         /\ config.connection # NULL
         /\ config.txSenderConnection # NULL
         /\ config.defaultRecipient =
              (IF env["DEFAULT_RECIPIENT"] THEN DEFAULT_RECIPIENT ELSE PlaceholderRecipient)
         /\ threw => net.peak > 0

C19_Witness ==
  /\ env = [ AllSet EXCEPT !["WALLET_PATH"] = FALSE ]
  /\ pc = "done"
  /\ threw
  /\ config.error = "WALLET_PATH is not set in .env file"


C21_LikeWithLike ==
  (entry = "tokenTransfer" /\ tokenAmount.read) =>
     /\ "Insufficient token balance" \notin reports <=> tokenAmount.amount >= args.amount
     /\ "Insufficient token balance" \in reports => (pc = "done" /\ instructions = << >>)


TerminalOutcomes == { "confirmed", "failed", "timed_out" }

(* C22, as claimed: every invocation terminates, the retry loop makes at most   *)
(* maxAttempts submission calls, polling always reaches one of the outcomes     *)
(* confirmed/finalized, failed, timed-out, and no status query is issued once   *)
(* the elapsed time has reached the bound.                                      *)
C22_AsClaimed ==
  /\ <>[](pc = "done")
  /\ [](Len(sendLog) <= maxAttempts)
  /\ (pc = "monitorCheck") ~> (mOutcome \in TerminalOutcomes)
  /\ [][ queries' # queries => Elapsed < maxWaitTime ]_vars

(* C22, amended: every invocation terminates, provided each network call        *)
(* returns or raises and the clock advances. The retry loop makes at most       *)
(* maxAttempts submission calls; polling always ends, either in one of the      *)
(* outcomes confirmed/finalized, failed, timed-out, or, when a status query     *)
(* raises, with that exception leaving monitorTransactionStatus; no status      *)
(* query is issued once the elapsed time has reached the bound.                 *)
C22_Terminates ==
  /\ <>[](pc = "done")
  /\ [](Len(sendLog) <= maxAttempts)
  /\ (pc = "monitorCheck") ~> (mOutcome \in TerminalOutcomes \cup { "threw" })
  /\ [](mOutcome = "threw" => (pc = "done" /\ queries > 0 /\ mResult = << >>))
  /\ [][ queries' # queries => Elapsed < maxWaitTime ]_vars

C22_Witness ==
  /\ entry = "solTransfer"
  /\ pc = "done"
  /\ Len(sendLog) = DefaultMaxAttempts
  /\ mOutcome = "timed_out"
  /\ queries > 0
  /\ Elapsed >= DefaultMaxWaitTime


CarriesTip(t) == \E i \in 1..Len(t.instructions) : IsTip(t.instructions[i])

C24_SwapReport ==
  entry = "jupiterSwapSOLtoUSDC" =>
    /\ "Swap confirmed successfully" \in reports =>
         /\ mOutcome = "confirmed"
         /\ mResult # << >>
         /\ IsConfirmed(mResult[1])
         /\ ~HasErr(mResult[1])
    /\ "Swap failed" \in reports => (mResult # << >> /\ HasErr(mResult[1]))
    /\ (pc = "done" /\ mResult # << >> /\ HasErr(mResult[1])) =>
         /\ "Swap failed" \in reports
         /\ "Swap confirmed successfully" \notin reports
    /\ (pc = "done" /\ mResult # << >> /\ ~HasErr(mResult[1])) =>
         "Swap confirmed successfully" \in reports
    /\ (pc = "done" /\ mOutcome \in { "failed", "timed_out" }) =>
         /\ mResult = << >>
         /\ "Swap confirmed successfully" \notin reports
         /\ "Swap failed" \notin reports

C24_Witness ==
  /\ entry = "jupiterSwapSOLtoUSDC"
  /\ pc = "done"
  /\ mResult = << Status("finalized", TRUE) >>
  /\ reports = { "Balance check passed", "Swap transaction sent", "Transaction confirmed",
                 "Swap failed" }


=============================================================================
